---- MODULE Spec2Model ----
(***************************************************************************)
(* Provider registry and lifecycle coordination of the OpenFeature JS SDK. *)
(*                                                                         *)
(* Two facade classes are modelled from packages/shared/src/open-feature.ts*)
(*   "common" : a concrete facade that inherits setProvider and close from *)
(*              OpenFeatureCommonAPI (lines 14-232);                       *)
(*   "client" : OpenFeatureAPI (lines 255-423), which overrides both.      *)
(* A provider is an opaque collaborator: what its initialize and onClose   *)
(* do on each call (return a promise that later resolves or rejects, or    *)
(* throw synchronously) is an input chosen at the call.                    *)
(***************************************************************************)
EXTENDS Integers, Sequences, FiniteSets, TLC

VARIABLES
    facade,           \* which class the facade object is an instance of
    defaultProvider,  \* _defaultProvider (common) / _provider (client)
    clientProviders,  \* _clientProviders (common) / _providers (client)
    clientEvents,     \* keys of _clientEvents: the client scopes that exist
    listeners,        \* per provider: the propagation handlers on provider.events
    pendingInit,      \* initialize promises that have not settled yet
    closing,          \* the close() call in flight: position, what it closed
    calls,            \* number of facade calls made so far
    closedBySet,      \* per provider: onClose invocations made by setProvider
    episodes,         \* per provider: times it went from unreferenced to bound
    context,          \* _context: the global evaluation context
    handlers,         \* per emitter: the application handlers, in order
    slotState,        \* per slot: the lifecycle state its events have reached
    propagator,       \* _transactionContextPropagator
    last              \* what the most recent step did

vars == <<facade, defaultProvider, clientProviders, clientEvents, listeners,
          pendingInit, closing, calls, closedBySet, episodes, context,
          handlers, slotState, propagator, last>>

----------------------------------------------------------------------------
\* Bounds of the model.

\* setProvider calls made in one behaviour.
MaxCalls == 3

\* close() calls made in one behaviour.
MaxCloses == 1

\* Cap of the per-provider counters.
MaxCount == 2

\* Application handlers registered at one time, over all emitters.
MaxHandlers == 1

\* setProvider calls made in one behaviour of the specifications that swap
\* providers under registered handlers.
MaxSwapCalls == 2

\* setProvider calls made in one behaviour of the specification that adds
\* handlers.
MaxLateCalls == 1

\* Registrations held at one time, over all emitters, in the specification
\* that adds and removes handlers.
MaxListed == 3

----------------------------------------------------------------------------
\* Values.

None == "none"
Undefined == "undefined"

\* The provider instances: the no-op provider the default slot starts with,
\* and two providers of the application.
NOOP == "NOOP"
Providers == {"NOOP", "P1", "P2"}
\* What application code passes to setProvider: a provider object, or a
\* value that is not an object.
ProviderArgs == {"P1", "P2", None}

Names == {"a", "b"}
\* A slot key: a client name, or undefined for the default slot.
ClientNames == Names \cup {Undefined}

API == "API"

Ready == "PROVIDER_READY"
Error == "PROVIDER_ERROR"
ConfigurationChanged == "PROVIDER_CONFIGURATION_CHANGED"
Stale == "PROVIDER_STALE"
\* Object.values(ProviderEvents), the kinds line 168 iterates over.
ProviderEvents == {Ready, Error, ConfigurationChanged, Stale}

\* The emitters: this._events, and one per key of _clientEvents.
Scopes == {API} \cup ClientNames

\* The kinds application handlers are registered for.
HandlerKinds == {Ready, Stale}

\* Values of the global evaluation context; _context starts as {} (line 16).
EmptyContext == "{}"
Contexts == {"{}", "ctx1"}

\* The details a provider passes when it emits through its event source:
\* none, a message, or a message with a clientName of its own.
CacheExpired == "cache expired"
Spoofed == "spoofed"
NoDetails == [message |-> Undefined, clientName |-> Undefined]
DetailsArgs ==
    {NoDetails,
     [message |-> CacheExpired, clientName |-> Undefined],
     [message |-> CacheExpired, clientName |-> Spoofed]}

\* Transaction context propagators. The facade starts with the no-op one
\* (line 15); the application passes objects that have both functions of a
\* propagator, one of them, or none, or no object at all.
NoopPropagator == "NOOP_TRANSACTION_CONTEXT_PROPAGATOR"
PropagatorArgs == {"T1", "T2", "noGet", "noSet", "neither", Undefined}
\* typeof transactionContextPropagator?.getTransactionContext === 'function'
HasGetTransactionContext(t) == t \in {NoopPropagator, "T1", "T2", "noSet"}
\* typeof transactionContextPropagator?.setTransactionContext === 'function'
HasSetTransactionContext(t) == t \in {NoopPropagator, "T1", "T2", "noGet"}

\* Transaction contexts; {} is the empty one.
EmptyTransactionContext == "{}"
TransactionContexts == {"{}", "tc1"}

\* Capabilities of the provider instances: the optional members of the
\* provider contract.
HasInitialize(p) == p \in {"P1"}
HasOnClose(p) == p \in {"P1", "P2"}
HasEvents(p) == p \in {"P1", "P2"}

\* What a call of initialize can do.
InitOutcomes == {"promise", "throw"}
\* What a call of onClose can do.
CloseOutcomes == {"resolve", "reject", "throw"}
\* How an initialize promise settles; a rejection carries a reason.
ErrMsg == "Error('boom')"
ErrEmpty == "Error('')"
NonError == "'boom'"
Reasons == {ErrMsg, ErrEmpty, NonError, Undefined}
Settlements == {"resolve"} \cup Reasons

Boom == "boom"
Empty == ""
TypeError == "TypeError"

\* error.message as line 116 evaluates it.
MessageOf(reason) ==
    CASE reason = ErrMsg -> Boom
      [] reason = ErrEmpty -> Empty
      [] reason = NonError -> Undefined
      [] OTHER -> TypeError

----------------------------------------------------------------------------
\* Lookups.

\* getProviderForClientIn with the fallback of line 144 going to the no-op
\* provider the facade started with instead of the current default.
getProviderForClientInInitial(dflt, named, name) ==
    IF name = Undefined THEN dflt
    ELSE IF named[name] # None THEN named[name] ELSE NOOP

\* Lines 139-145.
getProviderForClientIn(dflt, named, name) ==
    IF name = Undefined THEN dflt
    ELSE IF named[name] # None THEN named[name] ELSE dflt

getProviderForClient(name) ==
    getProviderForClientIn(defaultProvider, clientProviders, name)

\* Whether p is the value of some slot.
Referenced(dflt, named, p) ==
    \/ dflt = p
    \/ \E n \in Names : named[n] = p

Bump(f, p) == [f EXCEPT ![p] = IF @ < MaxCount THEN @ + 1 ELSE @]

\* One emission: the emitter it went into, the kind, the details, and what
\* the slot resolved to when it was emitted.
Emission(scope, kind, clientName, message, dflt, named) ==
    [scope |-> scope, kind |-> kind, clientName |-> clientName,
     message |-> message,
     active |-> getProviderForClientIn(dflt, named, clientName)]

\* Lines 112-113, 116-117, 120-121: into the client emitter, then the API one.
EmitBoth(kind, clientName, message, dflt, named) ==
    << Emission(clientName, kind, clientName, message, dflt, named),
       Emission(API, kind, clientName, message, dflt, named) >>

\* Lines 362, 365, 368: this._events.emit(kind), no details. slot is the
\* slot whose binding led to the emission.
EmitApiOnly(kind, slot, dflt, named) ==
    << [scope |-> API, kind |-> kind, clientName |-> Undefined,
        message |-> Undefined,
        active |-> getProviderForClientIn(dflt, named, slot)] >>

\* What a step did: the call, the providers whose initialize and onClose it
\* invoked, the events it emitted, and how the call ended.
Step(op, clientName, provider, old) ==
    [op |-> op, clientName |-> clientName, provider |-> provider,
     old |-> old, noop |-> FALSE, threw |-> FALSE, inited |-> None,
     initThrew |-> FALSE, closes |-> <<>>, failed |-> {}, emits |-> <<>>,
     dirty |-> FALSE, result |-> None, ctx |-> None, details |-> NoDetails,
     ran |-> <<>>, logged |-> <<>>, prior |-> <<>>, handler |-> None,
     arg |-> None]

\* The handlers of one emitter that are registered for kind, in the order
\* they were added.
HandlersOf(list, kind) == SelectSeq(list, LAMBDA h : h.kind = kind)

\* What a handler function of the application does when it is invoked: it
\* returns, throws, or returns a promise that rejects. The behaviour belongs
\* to the function, as it does for handler0 of requirement 5.2.5.
HandlerBehaviour(id) ==
    CASE id = 2 -> "throw"
      [] id = 3 -> "reject"
      [] OTHER -> "return"

\* One invocation of a handler by emit: the handler, the event it was given,
\* how the handler ended, and whether its failure left emit.
Invocation(h, e, escaped) ==
    [handler |-> h.id, via |-> h.via, scope |-> e.scope,
     kind |-> e.kind, clientName |-> e.clientName,
     message |-> e.message, active |-> e.active,
     outcome |-> HandlerBehaviour(h.id), escaped |-> escaped]

\* Invocations of an emitter that does not isolate its handlers: the first
\* handler that throws ends the dispatch and its exception leaves emit.
InvocationsUntilFailure(hs, e) ==
    LET hk == HandlersOf(hs[e.scope], e.kind)
        throwing == {i \in 1..Len(hk) : HandlerBehaviour(hk[i].id) = "throw"}
        n == IF throwing = {} THEN Len(hk)
             ELSE CHOOSE i \in throwing : \A j \in throwing : i <= j
    IN [i \in 1..n |-> Invocation(hk[i], e, i \in throwing)]

\* Invocations of an emitter that runs the handler added last first.
InvocationsNewestFirst(hs, e) ==
    LET hk == HandlersOf(hs[e.scope], e.kind)
    IN [i \in 1..Len(hk) |-> Invocation(hk[Len(hk) + 1 - i], e, FALSE)]

\* emit(kind, details) on an emitter: every handler registered for the kind
\* is invoked with the details, in registration order, before emit returns;
\* a handler that throws or rejects is logged and the dispatch goes on.
Invocations(hs, e) ==
    LET hk == HandlersOf(hs[e.scope], e.kind)
    IN [i \in 1..Len(hk) |-> Invocation(hk[i], e, FALSE)]

RECURSIVE Dispatch(_, _)
Dispatch(hs, emits) ==
    IF emits = <<>> THEN <<>>
    ELSE Invocations(hs, Head(emits)) \o Dispatch(hs, Tail(emits))

\* Whether the failure of some handler left the emit call that invoked it.
Escaped(ran) == \E i \in 1..Len(ran) : ran[i].escaped

\* A step with the handler invocations its emissions led to; an exception
\* that leaves emit is one of the caller.
Dispatched(step, hs) ==
    [step EXCEPT !.ran = Dispatch(hs, step.emits),
                 !.threw = @ \/ Escaped(Dispatch(hs, step.emits))]

\* No close() call in flight, after count of them.
Idle(count) == [pc |-> "idle", closes |-> <<>>, dirty |-> FALSE,
                count |-> count]

----------------------------------------------------------------------------
Init ==
    /\ facade \in {"common", "client"}
    /\ defaultProvider = NOOP
    /\ clientProviders = [n \in Names |-> None]
    /\ clientEvents = {}
    /\ listeners = [p \in Providers |-> <<>>]
    /\ pendingInit = <<>>
    /\ closing = Idle(0)
    /\ calls = 0
    /\ closedBySet = [p \in Providers |-> 0]
    /\ episodes = [p \in Providers |-> 0]
    /\ context = EmptyContext
    /\ propagator = NoopPropagator
    /\ handlers = [s \in Scopes |-> <<>>]
    /\ slotState = [n \in ClientNames |->
                        IF n = Undefined THEN "Ready" ELSE "Unbound"]
    /\ last = Step("init", Undefined, None, None)

----------------------------------------------------------------------------
\* setProvider of OpenFeatureCommonAPI.

\* Lines 132-133: whether the superseded provider is closed. dflt is
\* _defaultProvider as read after the registry update.
ShouldClose(clientName, old, dflt) ==
    clientName = Undefined \/ old # dflt

\* IsNoOp without the identity check of line 102.
IsNoOpNoIdentity(old, provider) ==
    provider = None

\* Lines 95-104: nothing to bind, or the slot already resolves to provider.
IsNoOp(old, provider) ==
    provider = None \/ old = provider

\* ReadyNow with the else branch of lines 119-122 left out.
ReadyNowNever(provider, clientName, dflt, named) ==
    <<>>

\* Lines 119-122: a provider with no initialize is ready at once.
ReadyNow(provider, clientName, dflt, named) ==
    IF HasInitialize(provider) THEN <<>>
    ELSE EmitBoth(Ready, clientName, Undefined, dflt, named)

\* Lines 124-128.
SetSlot(named, clientName, provider) ==
    IF clientName = Undefined THEN named
    ELSE [named EXCEPT ![clientName] = provider]

SetDefault(dflt, clientName, provider) ==
    IF clientName = Undefined THEN provider ELSE dflt

\* transferListeners with the removeAllHandlers call of line 165 left out.
transferListenersKeepOld(ls, old, new, clientName) ==
    IF HasEvents(new)
    THEN [ls EXCEPT ![new] = Append(@, clientName)]
    ELSE ls

\* Lines 159-175: removeAllHandlers on the old event source, one set of
\* propagation handlers tagged with clientName on the new one.
transferListeners(ls, old, new, clientName) ==
    LET removed == IF HasEvents(old) THEN [ls EXCEPT ![old] = <<>>] ELSE ls
    IN IF HasEvents(new)
       THEN [removed EXCEPT ![new] = Append(@, clientName)]
       ELSE removed

\* A provider that was bound to no slot becomes bound.
Rebind(provider) ==
    IF Referenced(defaultProvider, clientProviders, provider)
    THEN episodes
    ELSE Bump(episodes, provider)

\* getEventEmitterForClient without the lookup of lines 148-151: a new
\* emitter on every call.
getEventEmitterForClientFresh(hs, created, name) ==
    <<>>

\* Lines 147-157: the handlers of the emitter kept for name, those of a new
\* emitter if there is none yet. created is the key set of _clientEvents.
getEventEmitterForClient(hs, created, name) ==
    IF name \in created THEN hs[name] ELSE <<>>

\* initializeArg with an empty context in place of this._context.
initializeArgEmpty(ctx) == EmptyContext

\* Lines 110, 360: the argument of initialize.
initializeArg(ctx) == ctx

\* The state of a slot once provider is bound to it: Initializing while its
\* initialize runs, Ready at once when it has none.
Bound(state, clientName, provider) ==
    [state EXCEPT ![clientName] =
        IF HasInitialize(provider) THEN "Initializing" ELSE "Ready"]

SetProviderCommon(clientName, provider, initOutcome, closeOutcome) ==
    LET old == getProviderForClient(clientName)
        step == Step("setProvider", clientName, provider, old)
        dflt == SetDefault(defaultProvider, clientName, provider)
        named == SetSlot(clientProviders, clientName, provider)
        closeIt == ShouldClose(clientName, old, dflt) /\ HasOnClose(old)
        \* line 106
        scoped == [handlers EXCEPT ![clientName] =
                      getEventEmitterForClient(handlers, clientEvents, clientName)]
    IN
    /\ facade = "common"
    /\ calls < MaxCalls
    /\ calls' = calls + 1
    /\ UNCHANGED <<facade, propagator, context>>
    /\ IF IsNoOp(old, provider)
       THEN \* lines 95-104
            /\ last' = [step EXCEPT !.noop = TRUE]
            /\ UNCHANGED <<defaultProvider, clientProviders, clientEvents,
                           listeners, pendingInit, closing, closedBySet,
                           episodes, handlers, slotState>>
       ELSE IF HasInitialize(provider) /\ initOutcome = "throw"
       THEN \* line 110 throws: the call ends there
            /\ clientEvents' = clientEvents \cup {clientName}
            /\ handlers' = scoped
            /\ last' = [step EXCEPT !.threw = TRUE, !.initThrew = TRUE,
                                     !.inited = provider,
                                     !.ctx = initializeArg(context)]
            /\ UNCHANGED <<defaultProvider, clientProviders, listeners,
                           pendingInit, closing, closedBySet, episodes,
                           slotState>>
       ELSE /\ clientEvents' = clientEvents \cup {clientName}
            /\ handlers' = scoped
            /\ slotState' = Bound(slotState, clientName, provider)
            /\ pendingInit' =
                   IF HasInitialize(provider)
                   THEN Append(pendingInit,
                               [provider |-> provider, clientName |-> clientName])
                   ELSE pendingInit
            /\ defaultProvider' = dflt
            /\ clientProviders' = named
            /\ listeners' = transferListeners(listeners, old, provider, clientName)
            /\ episodes' = Rebind(provider)
            /\ closedBySet' = IF closeIt THEN Bump(closedBySet, old) ELSE closedBySet
            /\ closing' = IF closing.pc = "idle" THEN closing
                          ELSE [closing EXCEPT !.dirty = TRUE]
            /\ last' = Dispatched([step EXCEPT
                   !.inited = IF HasInitialize(provider) THEN provider ELSE None,
                   !.ctx = IF HasInitialize(provider)
                           THEN initializeArg(context) ELSE None,
                   !.emits = ReadyNow(provider, clientName,
                                      defaultProvider, clientProviders),
                   !.closes = IF closeIt THEN <<old>> ELSE <<>>,
                   !.failed = IF closeIt /\ closeOutcome # "resolve"
                              THEN {old} ELSE {},
                   !.threw = closeIt /\ closeOutcome = "throw"], scoped)

----------------------------------------------------------------------------
\* setProvider of OpenFeatureAPI, which overrides the inherited one.

\* Line 371: oldProvider?.onClose?.() with no condition.
ShouldCloseClient(clientName, old, dflt) == TRUE

\* Lines 338-347.
IsNoOpClient(old, provider) ==
    provider = None \/ old = provider

\* Lines 355-356, 410-422: removeAllListeners on the old event source, one
\* set of handlers re-emitting into this._events on the new one.
attachListeners(ls, old, new) ==
    LET removed == IF HasEvents(old) THEN [ls EXCEPT ![old] = <<>>] ELSE ls
    IN IF HasEvents(new)
       THEN [removed EXCEPT ![new] = Append(@, API)]
       ELSE removed

SetProviderClient(clientName, provider, initOutcome, closeOutcome) ==
    LET old == getProviderForClient(clientName)
        step == Step("setProvider", clientName, provider, old)
        dflt == SetDefault(defaultProvider, clientName, provider)
        named == SetSlot(clientProviders, clientName, provider)
        initThrows == HasInitialize(provider) /\ initOutcome = "throw"
        closeIt == /\ ~initThrows
                   /\ ShouldCloseClient(clientName, old, dflt)
                   /\ HasOnClose(old)
    IN
    /\ facade = "client"
    /\ calls < MaxCalls
    /\ calls' = calls + 1
    /\ UNCHANGED <<facade, propagator, clientEvents, context, handlers>>
    /\ IF IsNoOpClient(old, provider)
       THEN \* lines 338-347
            /\ last' = [step EXCEPT !.noop = TRUE]
            /\ UNCHANGED <<defaultProvider, clientProviders, listeners,
                           pendingInit, closing, closedBySet, episodes,
                           slotState>>
       ELSE \* lines 349-356 run before initialize is called at line 360
            /\ slotState' = Bound(slotState, clientName, provider)
            /\ defaultProvider' = dflt
            /\ clientProviders' = named
            /\ listeners' = attachListeners(listeners, old, provider)
            /\ episodes' = Rebind(provider)
            /\ closing' = IF closing.pc = "idle" THEN closing
                          ELSE [closing EXCEPT !.dirty = TRUE]
            /\ pendingInit' =
                   IF HasInitialize(provider) /\ ~initThrows
                   THEN Append(pendingInit,
                               [provider |-> provider, clientName |-> clientName])
                   ELSE pendingInit
            /\ closedBySet' = IF closeIt THEN Bump(closedBySet, old) ELSE closedBySet
            /\ last' = Dispatched([step EXCEPT
                   !.inited = IF HasInitialize(provider) THEN provider ELSE None,
                   !.ctx = IF HasInitialize(provider)
                           THEN initializeArg(context) ELSE None,
                   !.emits = IF HasInitialize(provider) THEN <<>>
                             ELSE EmitApiOnly(Ready, clientName, dflt, named),
                   !.closes = IF closeIt THEN <<old>> ELSE <<>>,
                   !.failed = IF closeIt /\ closeOutcome # "resolve"
                              THEN {old} ELSE {},
                   !.initThrew = initThrows,
                   !.threw = initThrows \/ (closeIt /\ closeOutcome = "throw")],
                   handlers)

\* What the calls a setProvider call can make may do: initialize is called
\* on a provider that has it, onClose on a superseded provider that has it.
InitChoices(provider) ==
    IF HasInitialize(provider) THEN InitOutcomes ELSE {"promise"}

CloseChoices(clientName, provider) ==
    LET old == getProviderForClient(clientName)
    IN IF provider # None /\ old # provider /\ HasOnClose(old)
       THEN CloseOutcomes ELSE {"resolve"}

SetProvider ==
    \E clientName \in ClientNames, provider \in ProviderArgs :
        \E io \in InitChoices(provider),
           co \in CloseChoices(clientName, provider) :
            \/ SetProviderCommon(clientName, provider, io, co)
            \/ SetProviderClient(clientName, provider, io, co)

----------------------------------------------------------------------------
\* The continuation of an initialize promise (lines 111-118, 361-366).

RemoveAt(seq, i) ==
    [j \in 1..(Len(seq) - 1) |-> IF j < i THEN seq[j] ELSE seq[j + 1]]

\* InitEmitsCommon with line 113 left out: Ready reaches the client emitter
\* only.
InitEmitsClientScopeOnly(settle, clientName) ==
    IF settle = "resolve"
    THEN << Emission(clientName, Ready, clientName, Undefined,
                     defaultProvider, clientProviders) >>
    ELSE IF MessageOf(settle) = TypeError
    THEN <<>>
    ELSE EmitBoth(Error, clientName, MessageOf(settle),
                  defaultProvider, clientProviders)

\* InitEmitsCommon with the catch callback running after the then callback
\* as well: Error follows Ready.
InitEmitsCommonReadyThenError(settle, clientName) ==
    IF settle = "resolve"
    THEN EmitBoth(Ready, clientName, Undefined, defaultProvider, clientProviders)
         \o EmitBoth(Error, clientName, Undefined,
                     defaultProvider, clientProviders)
    ELSE IF MessageOf(settle) = TypeError
    THEN <<>>
    ELSE EmitBoth(Error, clientName, MessageOf(settle),
                  defaultProvider, clientProviders)

\* Lines 111-118: what the then / catch callbacks emit for a settlement.
\* A rejection with undefined makes error.message throw inside the catch
\* callback before anything is emitted.
InitEmitsCommon(settle, clientName) ==
    IF settle = "resolve"
    THEN EmitBoth(Ready, clientName, Undefined, defaultProvider, clientProviders)
    ELSE IF MessageOf(settle) = TypeError
    THEN <<>>
    ELSE EmitBoth(Error, clientName, MessageOf(settle),
                  defaultProvider, clientProviders)

\* Lines 361-366.
InitEmitsClient(settle, clientName) ==
    IF settle = "resolve"
    THEN EmitApiOnly(Ready, clientName, defaultProvider, clientProviders)
    ELSE EmitApiOnly(Error, clientName, defaultProvider, clientProviders)

\* Lines 111-118, 361-366: catch is chained behind then, so an exception
\* that leaves an emit call of the then callback ends that callback and runs
\* the catch callback. emits is what the callback for the settlement emits
\* when no emit call raises, caught what the catch callback emits.
Chained(settle, emits, caught, hs) ==
    LET raising == {k \in 1..Len(emits) : Escaped(Invocations(hs, emits[k]))}
    IN IF settle # "resolve" \/ raising = {} THEN emits
       ELSE SubSeq(emits, 1, CHOOSE k \in raising : \A j \in raising : k <= j)
            \o caught

\* The state of the slot after the initialize promise of its provider has
\* settled: Ready on success, Error on failure.
AfterSettle(state, clientName, provider, settle) ==
    IF getProviderForClient(clientName) # provider THEN state
    ELSE [state EXCEPT ![clientName] =
             IF settle = "resolve" THEN "Ready" ELSE "Error"]

InitSettle ==
    \E i \in 1..Len(pendingInit), settle \in Settlements :
        LET p == pendingInit[i] IN
        /\ pendingInit' = RemoveAt(pendingInit, i)
        /\ slotState' = AfterSettle(slotState, p.clientName, p.provider, settle)
        /\ last' = Dispatched(
               [Step("initSettle", p.clientName, p.provider, None) EXCEPT
               !.result = settle,
               !.emits = IF facade = "common"
                         THEN Chained(settle,
                                      InitEmitsCommon(settle, p.clientName),
                                      InitEmitsCommon(ErrMsg, p.clientName),
                                      handlers)
                         ELSE Chained(settle,
                                      InitEmitsClient(settle, p.clientName),
                                      InitEmitsClient(ErrMsg, p.clientName),
                                      handlers),
               \* the promise chain ends rejected with nobody handling it
               !.threw = facade = "common" /\ settle # "resolve"
                         /\ MessageOf(settle) = TypeError], handlers)
        /\ UNCHANGED <<facade, propagator, defaultProvider, clientProviders, clientEvents,
                       listeners, closing, calls, closedBySet, episodes,
                       context, handlers>>

----------------------------------------------------------------------------
\* close() of OpenFeatureCommonAPI (lines 177-195).

SlotOrder == <<"a", "b">>

IsBound(n) == clientProviders[n] # None

\* Lines 184-194: every entry of _clientProviders, one onClose call each.
\* The entries are taken in SlotOrder; the claims do not depend on the order.
FanOut ==
    LET bound == SelectSeq(SlotOrder, IsBound)
        all == [i \in 1..Len(bound) |-> clientProviders[bound[i]]]
    IN SelectSeq(all, HasOnClose)

\* The providers of failing entries: a throw and a rejection both end in the
\* catch of line 190.
FanOutFailed(outcome) ==
    {clientProviders[n] : n \in {m \in Names : /\ IsBound(m)
                                               /\ HasOnClose(clientProviders[m])
                                               /\ outcome[m] # "resolve"}}

\* Lines 187-193: one handleShutdownError call for every failing entry, and
\* the provider it is given is this._defaultProvider (line 191).
FanOutLogged(outcome) ==
    LET failing == SelectSeq(SlotOrder,
                             LAMBDA m : /\ IsBound(m)
                                        /\ HasOnClose(clientProviders[m])
                                        /\ outcome[m] # "resolve")
    IN [i \in 1..Len(failing) |-> defaultProvider]

CloseCallCommon(co, outcome) ==
    LET d == defaultProvider
        invoked == HasOnClose(d)
        first == IF invoked THEN <<d>> ELSE <<>>
    IN
    /\ facade = "common"
    /\ closing.pc = "idle"
    /\ closing.count < MaxCloses
    /\ IF invoked /\ co = "throw"
       THEN \* caught at line 180; the call runs on to line 186 without
            \* suspending, and every entry catches its own failure
            /\ closing' = Idle(closing.count + 1)
            /\ last' = [Step("closeDone", Undefined, None, None) EXCEPT
                   !.closes = first \o FanOut,
                   !.failed = {d} \cup FanOutFailed(outcome),
                   \* line 181, then line 191 for the entries
                   !.logged = <<defaultProvider>> \o FanOutLogged(outcome),
                   !.result = "resolved"]
       ELSE /\ closing' = [pc |-> IF invoked THEN "awaitDefault" ELSE "awaitNothing",
                           closes |-> first, dirty |-> FALSE,
                           count |-> closing.count + 1]
            /\ last' = [Step("close", Undefined, None, None) EXCEPT
                   !.closes = first]
    /\ UNCHANGED <<facade, propagator, defaultProvider, clientProviders, clientEvents,
                   listeners, pendingInit, calls, closedBySet, episodes,
                   context, handlers, slotState>>

\* The await of line 179 resumes: lines 180-194. Promise.all settles once
\* every entry has caught its own failure; nothing of the facade runs in
\* between, so the step ends with the promise of close() resolved.
CloseResumeCommon(settle, outcome) ==
    LET rejected == closing.pc = "awaitDefault" /\ settle = "reject"
        failedNow == (IF rejected THEN {closing.closes[1]} ELSE {})
                     \cup FanOutFailed(outcome)
    IN
    /\ facade = "common"
    /\ closing.pc \in {"awaitDefault", "awaitNothing"}
    /\ closing.pc = "awaitNothing" => settle = "resolve"
    /\ closing' = Idle(closing.count)
    /\ last' = [Step("closeDone", Undefined, None, None) EXCEPT
           !.closes = closing.closes \o FanOut,
           !.failed = failedNow,
           \* line 181 reads this._defaultProvider when the catch runs
           !.logged = (IF rejected THEN <<defaultProvider>> ELSE <<>>)
                      \o FanOutLogged(outcome),
           !.dirty = closing.dirty,
           !.result = "resolved"]
    /\ UNCHANGED <<facade, propagator, defaultProvider, clientProviders, clientEvents,
                   listeners, pendingInit, calls, closedBySet, episodes,
                   context, handlers, slotState>>

----------------------------------------------------------------------------
\* close() of OpenFeatureAPI (lines 375-377).

CloseCallClient(co) ==
    LET d == defaultProvider
        invoked == HasOnClose(d)
        first == IF invoked THEN <<d>> ELSE <<>>
    IN
    /\ facade = "client"
    /\ closing.pc = "idle"
    /\ closing.count < MaxCloses
    /\ closing' = [pc |-> IF ~invoked THEN "awaitNothing"
                          ELSE IF co = "throw" THEN "threwDefault"
                          ELSE "awaitDefault",
                   closes |-> first, dirty |-> FALSE,
                   count |-> closing.count + 1]
    /\ last' = [Step("close", Undefined, None, None) EXCEPT
           !.closes = first,
           !.failed = IF invoked /\ co = "throw" THEN {d} ELSE {}]
    /\ UNCHANGED <<facade, propagator, defaultProvider, clientProviders, clientEvents,
                   listeners, pendingInit, calls, closedBySet, episodes,
                   context, handlers, slotState>>

\* The await of line 376 resumes and the promise close() returned settles.
CloseResumeClient(settle) ==
    LET rejected == \/ closing.pc = "threwDefault"
                    \/ closing.pc = "awaitDefault" /\ settle = "reject"
        failedNow == IF rejected THEN {closing.closes[1]} ELSE {}
    IN
    /\ facade = "client"
    /\ closing.pc \in {"awaitDefault", "awaitNothing", "threwDefault"}
    /\ closing.pc = "awaitNothing" => settle = "resolve"
    /\ closing.pc = "threwDefault" => settle = "reject"
    /\ closing' = Idle(closing.count)
    /\ last' = [Step("closeDone", Undefined, None, None) EXCEPT
           !.closes = closing.closes, !.failed = failedNow,
           !.dirty = closing.dirty,
           !.result = IF rejected THEN "rejected" ELSE "resolved"]
    /\ UNCHANGED <<facade, propagator, defaultProvider, clientProviders, clientEvents,
                   listeners, pendingInit, calls, closedBySet, episodes,
                   context, handlers, slotState>>

CloseCall ==
    \E co \in CloseOutcomes :
        \/ \E outcome \in [Names -> CloseOutcomes] : CloseCallCommon(co, outcome)
        \/ CloseCallClient(co)

CloseResume ==
    \E settle \in {"resolve", "reject"} :
        \/ \E outcome \in [Names -> CloseOutcomes] :
               CloseResumeCommon(settle, outcome)
        \/ CloseResumeClient(settle)

Next ==
    \/ SetProvider
    \/ InitSettle
    \/ CloseCall
    \/ CloseResume

Spec == Init /\ [][Next]_vars

----------------------------------------------------------------------------
\* A provider emits an event through its event source (provider.events).

\* Lines 171-172: { ...details, clientName }, the slot's name written last.
Merge(details, clientName) == [details EXCEPT !.clientName = clientName]

\* Lines 169-173: each propagation handler transferListeners attached emits
\* into the client emitter it was created with, then into this._events.
RECURSIVE ForwardCommon(_, _, _)
ForwardCommon(tags, kind, details) ==
    IF tags = <<>> THEN <<>>
    ELSE LET d == Merge(details, Head(tags))
         IN EmitBoth(kind, d.clientName, d.message,
                     defaultProvider, clientProviders)
            \o ForwardCommon(Tail(tags), kind, details)

\* Lines 411-417: each listener attachListeners attached calls
\* this._events.emit(eventType) and drops the details.
ForwardClient(tags, kind) ==
    [i \in 1..Len(tags) |->
        [scope |-> API, kind |-> kind, clientName |-> Undefined,
         message |-> Undefined, active |-> None]]

\* The slots provider p reports for: those its propagation handlers are
\* tagged with, or, with untagged listeners, those that hold it.
SlotsOf(p) ==
    IF facade = "common" THEN {listeners[p][i] : i \in 1..Len(listeners[p])}
    ELSE IF listeners[p] = <<>> THEN {}
    ELSE {n \in ClientNames :
             IF n = Undefined THEN defaultProvider = p
             ELSE clientProviders[n] = p}

\* A Ready event of the provider returns its slots to Ready; events of the
\* other kinds leave the state of the slots alone.
AfterEvent(state, p, kind) ==
    IF kind # Ready THEN state
    ELSE [n \in ClientNames |-> IF n \in SlotsOf(p) THEN "Ready" ELSE state[n]]

ProviderEmit ==
    \E p \in Providers, kind \in ProviderEvents, details \in DetailsArgs :
        /\ HasEvents(p)
        /\ last' = Dispatched(
               [Step("providerEmit", Undefined, p, None) EXCEPT
               !.result = kind,
               !.details = details,
               !.emits = IF facade = "common"
                         THEN ForwardCommon(listeners[p], kind, details)
                         ELSE ForwardClient(listeners[p], kind)], handlers)
        /\ slotState' = AfterEvent(slotState, p, kind)
        /\ UNCHANGED <<facade, propagator, defaultProvider, clientProviders, clientEvents,
                       listeners, pendingInit, closing, calls, closedBySet,
                       episodes, context, handlers>>

----------------------------------------------------------------------------
\* Handlers of the application: addHandler of the facade (lines 51-53) and
\* of a client handle.

\* The emitter a client handle of the slot listens on: its own scope, or
\* this._events for OpenFeatureAPI, whose getClient hands out the API emitter
\* (line 396).
ScopeOf(clientName) == IF facade = "client" THEN API ELSE clientName

\* The emitter a registration made through via ends up on: via is API for
\* the facade itself, or the name of a client handle.
EmitterOf(via) == IF via = API THEN API ELSE ScopeOf(via)

\* The number of registrations, over all emitters.
Registered ==
    Len(handlers[API]) + Len(handlers[Undefined])
        + Len(handlers["a"]) + Len(handlers["b"])

\* Lines 69-71: getHandlers(kind) through the facade or a client handle is
\* getHandlers(kind) of the emitter, the handler functions registered for
\* the kind in the order they were added.
getHandlers(hs, via, kind) ==
    LET hk == HandlersOf(hs[EmitterOf(via)], kind)
    IN [i \in 1..Len(hk) |-> hk[i].id]

\* The lifecycle state behind a client handle: that of its own slot, or of
\* the default slot while the name has no binding.
ResolvedState(n) ==
    IF n # Undefined /\ clientProviders[n] # None THEN slotState[n]
    ELSE slotState[Undefined]

\* addHandler of a client handle: a Ready handler added when the provider of
\* the handle is already Ready is run at once with the client name of the
\* handle; handlers of other kinds are not.
Replay(entry) ==
    IF entry.kind = Ready /\ ResolvedState(entry.via) = "Ready"
    THEN << Invocation(entry,
                       [scope |-> EmitterOf(entry.via), kind |-> Ready,
                        clientName |-> entry.via, message |-> Undefined,
                        active |-> getProviderForClient(entry.via)],
                       FALSE) >>
    ELSE <<>>

\* The emitters that exist after a handle's emitter has been asked for
\* (lines 147-157 create the emitter of a name on first use).
Touch(created, via) ==
    IF EmitterOf(via) = API THEN created ELSE created \cup {EmitterOf(via)}

\* Lines 51-53: addHandler of the facade is
\* this._events.addHandler(eventType, handler) and nothing else, and
\* addHandler of an emitter appends the handler to its list for the kind.
\* Through a client handle the handler is added to the emitter of the handle.
\* id is the handler function; a function may be registered more than once.
AddHandlerOf(via, kind, id) ==
    LET entry == [kind |-> kind, id |-> id, via |-> via] IN
    /\ handlers' = [handlers EXCEPT ![EmitterOf(via)] = Append(@, entry)]
    /\ clientEvents' = Touch(clientEvents, via)
    /\ last' = [Step("addHandler", via, None, None) EXCEPT
           !.result = kind,
           !.handler = id,
           !.prior = getHandlers(handlers, via, kind),
           !.ran = IF via = API THEN <<>> ELSE Replay(entry)]
    /\ UNCHANGED <<facade, propagator, defaultProvider, clientProviders, listeners,
                   pendingInit, closing, calls, closedBySet, episodes,
                   context, slotState>>

AddHandler ==
    \E via \in Scopes, kind \in HandlerKinds, id \in 1..MaxHandlers :
        /\ Registered < MaxHandlers
        /\ AddHandlerOf(via, kind, id)

\* removeHandler of an emitter keeping every registration: a call that
\* removes nothing.
removeFirstNothing(list, kind, id) ==
    list

\* removeHandler of an emitter: the first registration of the function for
\* the kind is taken out of the list, the others keep their places.
removeFirst(list, kind, id) ==
    LET hits == {i \in 1..Len(list) : list[i].kind = kind /\ list[i].id = id}
    IN IF hits = {} THEN list
       ELSE LET first == CHOOSE i \in hits : \A j \in hits : i <= j
            IN [j \in 1..(Len(list) - 1) |->
                   IF j < first THEN list[j] ELSE list[j + 1]]

\* Lines 60-62: removeHandler of the facade is
\* this._events.removeHandler(eventType, handler); through a client handle
\* the handler is removed from the emitter of the handle.
RemoveHandlerOf(via, kind, id) ==
    /\ handlers' = [handlers EXCEPT ![EmitterOf(via)] = removeFirst(@, kind, id)]
    /\ clientEvents' = Touch(clientEvents, via)
    /\ last' = [Step("removeHandler", via, None, None) EXCEPT
           !.result = kind,
           !.handler = id,
           !.prior = getHandlers(handlers, via, kind)]
    /\ UNCHANGED <<facade, propagator, defaultProvider, clientProviders, listeners,
                   pendingInit, closing, calls, closedBySet, episodes,
                   context, slotState>>

----------------------------------------------------------------------------
\* Lines 311-315: setContext replaces the global evaluation context. (The
\* field is line 16; what onContextChange of the provider does is its own.)
SetContext ==
    \E ctx \in Contexts :
        /\ context' = ctx
        /\ last' = [Step("setContext", Undefined, None, None) EXCEPT
               !.result = ctx]
        /\ UNCHANGED <<facade, propagator, defaultProvider, clientProviders, clientEvents,
                       listeners, pendingInit, closing, calls, closedBySet,
                       episodes, handlers, slotState>>

----------------------------------------------------------------------------
\* An application that registered handlers for every kind on the facade and
\* on the handle of every client before it bound any provider, then binds
\* providers while the providers emit events.

KindOrder == <<Ready, Error, ConfigurationChanged, Stale>>
ViaOrder == <<API, Undefined>> \o SlotOrder

\* The handler functions registered for each kind, in the order they are
\* added: one that throws, one that rejects, one that returns.
UpFrontFns == <<2, 3, 1>>

\* The handlers registered through via, kind after kind.
UpFront(via) ==
    [k \in 1..(Len(KindOrder) * Len(UpFrontFns)) |->
        [kind |-> KindOrder[((k - 1) \div Len(UpFrontFns)) + 1],
         id |-> UpFrontFns[((k - 1) % Len(UpFrontFns)) + 1],
         via |-> via]]

RECURSIVE UpFrontAll(_)
UpFrontAll(vias) ==
    IF vias = <<>> THEN <<>>
    ELSE UpFront(Head(vias)) \o UpFrontAll(Tail(vias))

InitEvents ==
    /\ facade \in {"common", "client"}
    /\ defaultProvider = NOOP
    /\ clientProviders = [n \in Names |-> None]
    /\ clientEvents = IF facade = "common" THEN ClientNames ELSE {}
    /\ listeners = [p \in Providers |-> <<>>]
    /\ pendingInit = <<>>
    /\ closing = Idle(0)
    /\ calls = 0
    /\ closedBySet = [p \in Providers |-> 0]
    /\ episodes = [p \in Providers |-> 0]
    /\ context = EmptyContext
    /\ propagator = NoopPropagator
    /\ handlers = [s \in Scopes |->
                      IF facade = "common" THEN UpFront(s)
                      ELSE IF s = API THEN UpFrontAll(ViaOrder) ELSE <<>>]
    /\ slotState = [n \in ClientNames |->
                        IF n = Undefined THEN "Ready" ELSE "Unbound"]
    /\ last = Step("init", Undefined, None, None)

NextEvents ==
    \/ SetProvider
    \/ InitSettle
    \/ ProviderEmit

SpecEvents == InitEvents /\ [][NextEvents]_vars

\* The same application making fewer setProvider calls and changing the
\* global context in between.
SetProviderBounded == calls < MaxSwapCalls /\ SetProvider

NextSwap ==
    \/ SetProviderBounded
    \/ InitSettle
    \/ ProviderEmit
    \/ SetContext

SpecSwap == InitEvents /\ [][NextSwap]_vars

----------------------------------------------------------------------------
\* An application that adds handlers before, between and after its
\* setProvider calls.
SetProviderLate == calls < MaxLateCalls /\ SetProvider

NextHandlers ==
    \/ SetProviderLate
    \/ InitSettle
    \/ AddHandler

SpecHandlers == Init /\ [][NextHandlers]_vars

----------------------------------------------------------------------------
\* The transaction context propagator (lines 202-231).

\* IsPropagator with the typeof test of line 206 left out.
IsPropagatorGetOnly(t) == HasGetTransactionContext(t)

\* Lines 204-208: the argument is assigned only if both are functions.
IsPropagator(t) == HasGetTransactionContext(t) /\ HasSetTransactionContext(t)

\* Lines 205, 207: the error logged for an argument that is not assigned.
PropagatorError(t) ==
    IF ~HasGetTransactionContext(t)
    THEN "getTransactionContext is not a function"
    ELSE "setTransactionContext is not a function"

\* Lines 202-212.
SetTransactionContextPropagator ==
    \E t \in PropagatorArgs :
        /\ propagator' = IF IsPropagator(t) THEN t ELSE propagator
        /\ last' = [Step("setTransactionContextPropagator", Undefined, None, None)
               EXCEPT !.arg = t,
                      !.logged = IF IsPropagator(t) THEN <<>>
                                 ELSE <<PropagatorError(t)>>]
        /\ UNCHANGED <<facade, defaultProvider, clientProviders, clientEvents,
                       listeners, pendingInit, closing, calls, closedBySet,
                       episodes, context, handlers, slotState>>

\* What a call of a function of the assigned propagator can do; the no-op
\* propagator does nothing and returns the empty context.
PropagatorOutcomes(t) ==
    IF t = NoopPropagator THEN {"return"} ELSE {"return", "throw"}

PropagatorContexts(t) ==
    IF t = NoopPropagator THEN {EmptyTransactionContext}
    ELSE TransactionContexts

\* Lines 214-220: the call is handed to the propagator as it is.
SetTransactionContext ==
    \E tc \in TransactionContexts, outcome \in PropagatorOutcomes(propagator) :
        /\ last' = [Step("setTransactionContext", Undefined, None, None)
               EXCEPT !.arg = tc,
                      !.threw = outcome = "throw"]
        /\ UNCHANGED <<facade, propagator, defaultProvider, clientProviders,
                       clientEvents, listeners, pendingInit, closing, calls,
                       closedBySet, episodes, context, handlers, slotState>>

\* getTransactionContextOf without the try of line 223: what the propagator
\* throws leaves the call.
getTransactionContextUncaught(outcome, tc, thrown) ==
    IF outcome = "return"
    THEN [value |-> tc, threw |-> FALSE, logged |-> <<>>]
    ELSE [value |-> None, threw |-> TRUE, logged |-> <<>>]

\* Lines 222-231: what getTransactionContext returns and logs when the
\* function of the propagator returns tc, or throws thrown.
getTransactionContextOf(outcome, tc, thrown) ==
    IF outcome = "return"
    THEN [value |-> tc, threw |-> FALSE, logged |-> <<>>]
    ELSE [value |-> EmptyTransactionContext, threw |-> FALSE,
          logged |-> << IF thrown = Undefined THEN Undefined
                        ELSE MessageOf(thrown) >>]

GetTransactionContext ==
    \E outcome \in PropagatorOutcomes(propagator),
       tc \in PropagatorContexts(propagator),
       thrown \in {ErrMsg, Undefined} :
        LET got == getTransactionContextOf(outcome, tc, thrown) IN
        /\ last' = [Step("getTransactionContext", Undefined, None, None)
               EXCEPT !.arg = IF outcome = "return" THEN tc ELSE outcome,
                      !.result = got.value,
                      !.threw = got.threw,
                      !.logged = got.logged]
        /\ UNCHANGED <<facade, propagator, defaultProvider, clientProviders,
                       clientEvents, listeners, pendingInit, closing, calls,
                       closedBySet, episodes, context, handlers, slotState>>

\* An application that assigns propagators and reads the transaction
\* context while it binds a provider.
NextPropagator ==
    \/ SetProviderLate
    \/ InitSettle
    \/ SetTransactionContextPropagator
    \/ SetTransactionContext
    \/ GetTransactionContext

SpecPropagator == Init /\ [][NextPropagator]_vars

----------------------------------------------------------------------------
\* An application that has bound a provider whose initialize promise is
\* pending, and adds and removes Ready and Error handlers on the facade and
\* on the handle of client 'a' before and after the promise settles.

ListedVias == {API, "a"}
ListedKinds == {Ready, Error}
\* The handler functions the application registers: one that returns and one
\* that throws.
HandlerFns == {1, 2}

AddListed ==
    \E via \in ListedVias, kind \in ListedKinds, id \in HandlerFns :
        /\ Registered < MaxListed
        /\ AddHandlerOf(via, kind, id)

RemoveHandler ==
    \E via \in ListedVias, kind \in ListedKinds, id \in HandlerFns :
        RemoveHandlerOf(via, kind, id)

\* The state setProvider(P1) or setProvider('a', P1) leaves when it is the
\* first call made on the facade: lines 106-130, or 349-360.
InitListing ==
    \E clientName \in {Undefined, "a"} :
        /\ facade \in {"common", "client"}
        /\ defaultProvider = SetDefault(NOOP, clientName, "P1")
        /\ clientProviders = SetSlot([n \in Names |-> None], clientName, "P1")
        /\ clientEvents = IF facade = "common" THEN {clientName} ELSE {}
        /\ listeners =
               IF facade = "common"
               THEN transferListeners([p \in Providers |-> <<>>], NOOP, "P1",
                                      clientName)
               ELSE attachListeners([p \in Providers |-> <<>>], NOOP, "P1")
        /\ pendingInit = << [provider |-> "P1", clientName |-> clientName] >>
        /\ closing = Idle(0)
        /\ calls = 1
        /\ closedBySet = [p \in Providers |-> 0]
        /\ episodes = [p \in Providers |-> IF p = "P1" THEN 1 ELSE 0]
        /\ context = EmptyContext
        /\ propagator = NoopPropagator
        /\ handlers = [s \in Scopes |-> <<>>]
        /\ slotState = Bound([n \in ClientNames |->
                                 IF n = Undefined THEN "Ready" ELSE "Unbound"],
                             clientName, "P1")
        /\ last = [Step("setProvider", clientName, "P1", NOOP) EXCEPT
               !.inited = "P1", !.ctx = initializeArg(EmptyContext)]

NextListing ==
    \/ InitSettle
    \/ AddListed
    \/ RemoveHandler

SpecListing == InitListing /\ [][NextListing]_vars

----------------------------------------------------------------------------
\* Vocabulary of the claims.

Range(seq) == {seq[i] : i \in 1..Len(seq)}

Count(seq, x) == Cardinality({i \in 1..Len(seq) : seq[i] = x})

IsReferenced(p) == Referenced(defaultProvider, clientProviders, p)

\* The last step was a setProvider call that went past the no-op checks.
Installing == last.op = "setProvider" /\ ~last.noop

\* The providers bound to some slot that expose onClose.
Closable == {p \in Providers : IsReferenced(p) /\ HasOnClose(p)}

\* The slots that hold a provider of their own.
BoundSlots == {Undefined} \cup {n \in Names : clientProviders[n] # None}

\* No provider instance is the value of two slots.
AllDistinct ==
    \A m, n \in BoundSlots :
        m # n => getProviderForClient(m) # getProviderForClient(n)

\* A close() call has run to its end with no setProvider call in between.
CloseDone == last.op = "closeDone" /\ ~last.dirty

Emitted(scope, kind, clientName) ==
    \E i \in 1..Len(last.emits) :
        /\ last.emits[i].scope = scope
        /\ last.emits[i].kind = kind
        /\ last.emits[i].clientName = clientName

----------------------------------------------------------------------------
\* C1: a setProvider call that replaces a provider does not invoke onClose on
\* it if, after the call, it is still the provider of some slot (the default
\* slot or a named one).
C1_NoCloseWhileBound ==
    Installing => \A p \in Range(last.closes) : ~IsReferenced(p)

\* C2: a provider that was bound, and never bound again after being released
\* by every slot, has had onClose invoked by setProvider exactly once if no
\* slot references it any more, and not at all while a slot still does
\* (setProvider of OpenFeatureCommonAPI).
C2_ClosedExactlyOnce ==
    facade = "common" =>
        \A p \in Providers :
            (HasOnClose(p) /\ episodes[p] = 1) =>
                closedBySet[p] = IF IsReferenced(p) THEN 0 ELSE 1

\* C3: one close() call invokes onClose on the default provider and on the
\* provider of every named client with a binding; with all instances distinct
\* that is one invocation per bound slot.
C3_CloseReachesAll ==
    CloseDone =>
        /\ Closable \subseteq Range(last.closes)
        /\ AllDistinct =>
               Len(last.closes) =
                   Cardinality({n \in BoundSlots :
                                   HasOnClose(getProviderForClient(n))})

\* C4: one close() call invokes onClose exactly once on each distinct provider
\* instance, however many slots hold it.
C4_CloseOncePerInstance ==
    CloseDone => \A p \in Closable : Count(last.closes, p) = 1

\* C5: whichever providers fail in onClose, a close() call still invokes
\* onClose on every bound provider and its promise resolves.
C5_CloseIsolatesFailures ==
    (CloseDone /\ last.failed # {}) =>
        /\ Closable \subseteq Range(last.closes)
        /\ last.result = "resolved"

----------------------------------------------------------------------------
EmittedKind(scope, kind) ==
    \E i \in 1..Len(last.emits) :
        last.emits[i].scope = scope /\ last.emits[i].kind = kind

\* The last step was the continuation of an initialize promise.
Settled == last.op = "initSettle"

\* C6: a setProvider call whose provider is the one the slot already resolves
\* to invokes neither initialize nor onClose, emits nothing, does not raise,
\* and leaves the registry, the scopes, the propagation handlers and the
\* pending initializations as they were.
C6_SameProviderIsNoOp ==
    [][ ( /\ calls' = calls + 1
          /\ last'.provider # None
          /\ last'.provider = getProviderForClient(last'.clientName) )
        => ( /\ last'.inited = None
             /\ last'.emits = <<>>
             /\ last'.closes = <<>>
             /\ ~last'.threw
             /\ UNCHANGED <<defaultProvider, clientProviders, clientEvents,
                            listeners, pendingInit>> ) ]_vars

\* A provider with initialize was bound a second time to the slot that
\* already resolves to it.
C6_Witness ==
    /\ last.op = "setProvider"
    /\ last.noop
    /\ last.provider # None
    /\ HasInitialize(last.provider)
    /\ last.provider = getProviderForClient(last.clientName)
    /\ last.clientName \in Names
    /\ clientProviders[last.clientName] = last.provider

\* C7: when the initialize promise of a provider bound to client name n (or
\* to the default slot) resolves, Ready with clientName = n is emitted into
\* n's client emitter and into the API emitter (OpenFeatureCommonAPI).
C7_ReadyOnInitSuccess ==
    (facade = "common" /\ Settled /\ last.result = "resolve") =>
        /\ last.clientName \in clientEvents
        /\ Emitted(last.clientName, Ready, last.clientName)
        /\ Emitted(API, Ready, last.clientName)

\* The initialize promise of a provider bound to a client name resolved.
C7_Witness ==
    /\ facade = "common"
    /\ Settled
    /\ last.result = "resolve"
    /\ last.clientName \in Names
    /\ Len(last.emits) = 2

\* C8: if initialize of a newly bound provider throws or its promise rejects,
\* setProvider does not raise and Error is emitted into the slot's emitter
\* and into the API emitter.
C8_InitFailureAbsorbed ==
    /\ (last.op = "setProvider" /\ last.initThrew) =>
           /\ ~last.threw
           /\ EmittedKind(ScopeOf(last.clientName), Error)
           /\ EmittedKind(API, Error)
    /\ (Settled /\ last.result # "resolve") =>
           /\ EmittedKind(ScopeOf(last.clientName), Error)
           /\ EmittedKind(API, Error)

\* C9: every rejection of initialize yields, in the slot's emitter and in the
\* API emitter, an Error event whose message is defined and not empty, and is
\* the message of the rejection when it has one (OpenFeatureCommonAPI).
C9_ErrorMessagePopulated ==
    (facade = "common" /\ Settled /\ last.result # "resolve") =>
        \A scope \in {last.clientName, API} :
            \E i \in 1..Len(last.emits) :
                /\ last.emits[i].scope = scope
                /\ last.emits[i].kind = Error
                /\ last.emits[i].message \notin {Undefined, Empty}
                /\ last.result = ErrMsg => last.emits[i].message = Boom

\* C10: binding a provider with no initialize emits Ready within the
\* setProvider call, once into the slot's emitter and once into the API
\* emitter, with the slot's client name, which is undefined for the default
\* slot (OpenFeatureCommonAPI).
C10_ReadyWithoutInitialize ==
    (facade = "common" /\ Installing /\ ~HasInitialize(last.provider)) =>
        /\ Len(last.emits) = 2
        /\ Emitted(last.clientName, Ready, last.clientName)
        /\ Emitted(API, Ready, last.clientName)

\* A provider with no initialize was bound to the default slot.
C10_Witness ==
    /\ facade = "common"
    /\ Installing
    /\ ~HasInitialize(last.provider)
    /\ last.clientName = Undefined
    /\ defaultProvider = last.provider
    /\ Emitted(API, Ready, Undefined)

----------------------------------------------------------------------------
\* The last step ran what binding a provider to a slot leads to: the
\* setProvider call, or the continuation of the initialize promise.
Binding == last.op \in {"setProvider", "initSettle"} /\ last.provider # None

Lifecycle == {Ready, Error}

\* C11: whenever binding provider p to client n runs a Ready or Error
\* handler registered through the handle of client n, the lookup for n
\* already returns p, for providers with initialize and for providers without.
C11_HandlerSeesNewProvider ==
    Binding =>
        \A i \in 1..Len(last.ran) :
            ( /\ last.ran[i].via = last.clientName
              /\ last.ran[i].kind \in Lifecycle )
            => last.ran[i].active = last.provider

----------------------------------------------------------------------------
\* The last step was caused by the provider of client n: it bound a provider
\* to n, settled the initialize call of that binding, or was an event of the
\* provider n holds.
CausedBy(n) ==
    \/ Binding /\ last.clientName = n
    \/ last.op = "providerEmit" /\ last.provider = clientProviders[n]

\* Some handler registered through the handle of client n ran in the last
\* step.
RanVia(n) == \E i \in 1..Len(last.ran) : last.ran[i].via = n

\* C12: for client names n1 # n2 bound to different provider instances,
\* neither binding a provider to n1 nor any event of n1's provider runs a
\* handler registered through the handle of n2.
C12_ScopesIsolated ==
    \A n1, n2 \in Names :
        ( /\ n1 # n2
          /\ clientProviders[n1] # None
          /\ clientProviders[n2] # None
          /\ clientProviders[n1] # clientProviders[n2]
          /\ CausedBy(n1) )
        => ~RanVia(n2)

----------------------------------------------------------------------------
\* In the last step a handler registered through via ran for an event of
\* kind with these details.
Received(via, kind, clientName, message) ==
    \E i \in 1..Len(last.ran) :
        /\ last.ran[i].via = via
        /\ last.ran[i].kind = kind
        /\ last.ran[i].clientName = clientName
        /\ last.ran[i].message = message

\* C13: when a provider bound to client name n emits an event of any kind
\* with details d, the handlers of that kind on n's emitter and on the API
\* emitter receive d with clientName set to n: a clientName in d is
\* overridden, the message is passed through (OpenFeatureCommonAPI).
C13_DetailsMerged ==
    (facade = "common" /\ last.op = "providerEmit") =>
        /\ \A n \in Names :
               clientProviders[n] = last.provider =>
                   /\ Received(n, last.result, n, last.details.message)
                   /\ Received(API, last.result, n, last.details.message)
        /\ \A i \in 1..Len(last.ran) : last.ran[i].clientName # Spoofed

----------------------------------------------------------------------------
\* Every propagation handler on the event source of p belongs to a slot p is
\* the active provider of.
PropagationIsCurrent(p) ==
    IF facade = "common"
    THEN \A i \in 1..Len(listeners[p]) :
             getProviderForClient(listeners[p][i]) = p
    ELSE listeners[p] # <<>> => IsReferenced(p)

\* C14: once setProvider has replaced a provider on a slot, the provider has
\* no propagation handler for that slot any more, so the events it emits
\* afterwards run no handler of the slot's emitter and reach the API
\* emitter under the name of no slot it has been replaced on.
C14_NoDanglingPropagation ==
    /\ \A p \in Providers : PropagationIsCurrent(p)
    /\ last.op = "providerEmit" =>
           \A i \in 1..Len(last.ran) :
               IF facade = "common"
               THEN /\ getProviderForClient(last.ran[i].clientName) = last.provider
                    /\ last.ran[i].via \in {last.ran[i].clientName, API}
               ELSE IsReferenced(last.provider)

\* A provider that was bound and then replaced emitted an event, and no
\* handler ran.
C14_Witness ==
    /\ last.op = "providerEmit"
    /\ episodes[last.provider] > 0
    /\ ~IsReferenced(last.provider)
    /\ last.result = Stale
    /\ last.ran = <<>>
    /\ handlers[API] # <<>>

----------------------------------------------------------------------------
\* The propagation handler setProvider attaches for the slot is on the event
\* source of provider.
Forwarding(ls, provider, clientName) ==
    \E i \in 1..Len(ls[provider]) :
        ls[provider][i] = IF facade = "common" THEN clientName ELSE API

\* Every handler the emitter holds for the kind of the last event ran for
\* the emission made under clientName.
AllRan(scope, clientName) ==
    \A j \in 1..Len(handlers[scope]) :
        handlers[scope][j].kind = last.result =>
            \E i \in 1..Len(last.ran) :
                /\ last.ran[i].handler = handlers[scope][j].id
                /\ last.ran[i].via = handlers[scope][j].via
                /\ last.ran[i].scope = scope
                /\ last.ran[i].clientName = clientName

----------------------------------------------------------------------------
\* The slots whose events a registration made through via is for: every
\* slot that holds a provider for the facade, the slot of the handle
\* otherwise.
SlotsHeard(via) == IF via = API THEN BoundSlots ELSE {via}

\* A provider bound by setProvider is behind client n and has reached the
\* ready state.
ReachedReady(n) ==
    /\ getProviderForClient(n) # NOOP
    /\ ResolvedState(n) = "Ready"

\* C16: a Ready handler added through the facade or through a client handle
\* while the provider of a slot it is for has already reached the ready
\* state is run, within the addHandler call, with that slot's client name;
\* a handler of another kind is not run when it is added.
C16_LateReadyHandlerRuns ==
    last.op = "addHandler" =>
        IF last.result = Ready
        THEN \A n \in SlotsHeard(last.clientName) :
                 ReachedReady(n) =>
                     \E i \in 1..Len(last.ran) :
                         /\ last.ran[i].kind = Ready
                         /\ last.ran[i].via = last.clientName
                         /\ last.ran[i].clientName = n
        ELSE last.ran = <<>>

----------------------------------------------------------------------------
\* The last step was a setProvider call for the slot of clientName that ran
\* to its registry update.
Installed(clientName) ==
    /\ Installing
    /\ last.clientName = clientName
    /\ ~(facade = "common" /\ last.initThrew)

\* C17: the lookup for a client name returns the provider bound to the name
\* if there is one, and the current default provider otherwise, so that
\* after every change of the default provider the names without a binding
\* (whose client handles look the provider up on every use) resolve to the
\* new default.
C17_LookupFallsBackToDefault ==
    /\ getProviderForClient(Undefined) = defaultProvider
    /\ \A n \in Names :
           getProviderForClient(n) = IF clientProviders[n] # None
                                     THEN clientProviders[n]
                                     ELSE defaultProvider
    /\ Installed(Undefined) =>
           \A n \in Names :
               getProviderForClient(n) = IF clientProviders[n] # None
                                         THEN clientProviders[n]
                                         ELSE last.provider

\* The default provider was replaced a second time while 'a' had no binding
\* and 'b' had one: 'a' resolves to the new default, 'b' to its own.
C17_Witness ==
    /\ Installed(Undefined)
    /\ last.old # NOOP
    /\ clientProviders["a"] = None
    /\ getProviderForClient("a") = last.provider
    /\ clientProviders["b"] # None
    /\ getProviderForClient("b") # last.provider

----------------------------------------------------------------------------
\* C18: after a setProvider call that gave provider p for the name n and
\* returned, client n resolves to p, and it still does after any step that
\* is not a setProvider call for n: a call for the default slot or for
\* another name, the settling of an initialize promise, a close.
C18_NamedProviderKept ==
    /\ [][ \A n \in Names :
               ( /\ last.op = "setProvider"
                 /\ last.clientName = n
                 /\ last.provider # None
                 /\ ~last.threw
                 /\ ~(calls' = calls + 1 /\ last'.clientName = n) )
               => getProviderForClientIn(defaultProvider', clientProviders', n)
                      = last.provider
         ]_vars
    /\ [][ \A n \in Names :
               ( /\ clientProviders[n] # None
                 /\ ~(calls' = calls + 1 /\ last'.clientName = n) )
               => clientProviders'[n] = clientProviders[n]
         ]_vars

----------------------------------------------------------------------------
\* C19: a setProvider call that installs a provider exposing initialize has
\* invoked initialize of that provider, and of no other, with the global
\* evaluation context as it is at the time of the call, and the slot
\* resolves to the provider when the call is over.
C19_InitializeWithContext ==
    \A n \in ClientNames :
        (Installed(n) /\ HasInitialize(last.provider)) =>
            /\ last.inited = last.provider
            /\ last.ctx = context
            /\ getProviderForClient(n) = last.provider

\* A provider with initialize was bound to a client name after the global
\* context had been changed.
C19_Witness ==
    /\ Installed("a")
    /\ HasInitialize(last.provider)
    /\ context # EmptyContext
    /\ last.ctx = context
    /\ clientProviders["a"] = last.provider

----------------------------------------------------------------------------
\* C20: when onClose of the provider a setProvider call supersedes throws or
\* rejects, the call does not raise, the new provider is the one the slot
\* resolves to, it has its propagation handler, and a provider without
\* initialize has had its Ready emitted.
C20_CloseFailureAbsorbed ==
    (Installing /\ last.failed # {}) =>
        /\ ~last.threw
        /\ getProviderForClient(last.clientName) = last.provider
        /\ HasEvents(last.provider) =>
               Forwarding(listeners, last.provider, last.clientName)
        /\ ~HasInitialize(last.provider) => EmittedKind(API, Ready)

----------------------------------------------------------------------------
\* The last step made emit calls: a setProvider call, the continuation of an
\* initialize promise, or an event of a provider.
Emitting == last.op \in {"setProvider", "initSettle", "providerEmit"}

\* Some handler invoked in the last step threw or rejected.
HandlerFailed ==
    \E i \in 1..Len(last.ran) : last.ran[i].outcome # "return"

\* Every handler the emitter of emission e holds for its kind was invoked
\* for it.
RanAll(e) ==
    \A j \in 1..Len(handlers[e.scope]) :
        handlers[e.scope][j].kind = e.kind =>
            \E i \in 1..Len(last.ran) :
                /\ last.ran[i].handler = handlers[e.scope][j].id
                /\ last.ran[i].via = handlers[e.scope][j].via
                /\ last.ran[i].scope = e.scope
                /\ last.ran[i].kind = e.kind
                /\ last.ran[i].clientName = e.clientName

\* The last step raised because a call of the provider did: initialize or
\* onClose threw, or the rejection of initialize carried no error object.
ProviderRaised ==
    \/ last.initThrew
    \/ last.failed # {}
    \/ last.op = "initSettle" /\ MessageOf(last.result) = TypeError

\* C21: when a handler throws or rejects during the dispatch of an event,
\* every handler registered for the kind on the emitter of each emission of
\* the step (the slot's emitter and the API emitter) has still been invoked,
\* and the failure does not leave emit: the setProvider call, the
\* continuation of initialize or the emit of the provider raises only if a
\* call of the provider did.
C21_HandlerFailureIsolated ==
    (Emitting /\ HandlerFailed) =>
        /\ \A k \in 1..Len(last.emits) : RanAll(last.emits[k])
        /\ \A i \in 1..Len(last.ran) : ~last.ran[i].escaped
        /\ last.threw => ProviderRaised

\* The initialize promise of the provider of client 'a' resolved: on the
\* emitter of 'a' a Ready handler threw, one rejected, and the one added
\* after them ran, as did the handlers on the API emitter.
C21_Witness ==
    /\ facade = "common"
    /\ Settled
    /\ last.result = "resolve"
    /\ last.clientName = "a"
    /\ ~last.threw
    /\ \E i, j, k \in 1..Len(last.ran) :
           /\ i < j /\ j < k
           /\ last.ran[i].scope = "a" /\ last.ran[i].outcome = "throw"
           /\ last.ran[j].scope = "a" /\ last.ran[j].outcome = "reject"
           /\ last.ran[k].scope = "a" /\ last.ran[k].outcome = "return"
    /\ \E i \in 1..Len(last.ran) :
           last.ran[i].scope = API /\ last.ran[i].outcome = "return"

----------------------------------------------------------------------------
\* The handler functions of a list of registrations or of invocations.
FnsOf(seq) == [i \in 1..Len(seq) |-> seq[i].id]

RanFns(seq) == [i \in 1..Len(seq) |-> seq[i].handler]

\* The handler functions invoked in the last step for the emission into
\* scope, in the order they were invoked.
RanIn(scope) == RanFns(SelectSeq(last.ran, LAMBDA r : r.scope = scope))

\* list with one element taken out, or list itself.
Shrunk(list) ==
    {list} \cup {RemoveAt(list, i) : i \in 1..Len(list)}

\* C22: one emission invokes the handlers its emitter holds for the kind in
\* the order they were added, and an addHandler or removeHandler call leaves
\* every list of every emitter in the order it had: addHandler puts one
\* handler at the end of one list, removeHandler takes at most one out.
C22_RegistrationOrder ==
    /\ [](Settled =>
             \A k \in 1..Len(last.emits) :
                 RanIn(last.emits[k].scope) =
                     FnsOf(HandlersOf(handlers[last.emits[k].scope],
                                      last.emits[k].kind)))
    /\ [][ \A s \in Scopes, kind \in ProviderEvents :
               /\ last'.op = "addHandler" =>
                      HandlersOf(handlers[s], kind)
                          \in Shrunk(HandlersOf(handlers'[s], kind))
               /\ last'.op = "removeHandler" =>
                      HandlersOf(handlers'[s], kind)
                          \in Shrunk(HandlersOf(handlers[s], kind))
         ]_vars

\* The initialize promise of the provider of client 'a' resolved while two
\* handlers were registered: on the emitter of 'a' the throwing handler,
\* added first, ran before the one that returns.
C22_Witness ==
    /\ Settled
    /\ last.result = "resolve"
    /\ last.clientName = "a"
    /\ Registered = 2
    /\ RanIn(ScopeOf("a")) = <<2, 1>>

----------------------------------------------------------------------------
\* The step from the current state to the next is an addHandler or a
\* removeHandler call made on the facade or on a client handle.
ListCall(op) == last'.op = op

\* The handlers of the other kinds on the emitter of the call, and those of
\* the other emitters, are left as they were.
OthersKept ==
    /\ \A s \in Scopes :
           s # EmitterOf(last'.clientName) => handlers'[s] = handlers[s]
    /\ \A kind \in ProviderEvents :
           kind # last'.result =>
               HandlersOf(handlers'[EmitterOf(last'.clientName)], kind)
                   = HandlersOf(handlers[EmitterOf(last'.clientName)], kind)

\* A removeHandler call follows the addHandler call of the same handler, for
\* the same kind and through the same handle.
RemovedAfterAdd ==
    /\ last.op = "addHandler"
    /\ last'.op = "removeHandler"
    /\ last'.clientName = last.clientName
    /\ last'.result = last.result
    /\ last'.handler = last.handler

\* list without its first element equal to fn.
WithoutFirst(list, fn) ==
    IF \A i \in 1..Len(list) : list[i] # fn THEN list
    ELSE LET first == CHOOSE i \in 1..Len(list) :
                          /\ list[i] = fn
                          /\ \A j \in 1..(i - 1) : list[j] # fn
         IN RemoveAt(list, first)

\* C23 as stated: addHandler followed by removeHandler of the same handler
\* restores the list getHandlers returned before the addHandler call
\* (OpenFeatureCommonAPI).
C23_AddRemoveRestores ==
    [][ (facade = "common" /\ RemovedAfterAdd) =>
            getHandlers(handlers', last'.clientName, last'.result) = last.prior
      ]_vars

\* C23, amended: addHandler(kind, h) appends h to the list getHandlers(kind)
\* returns and removeHandler(kind, h) takes the first h out of it, leaving
\* the handlers of other kinds and of other emitters as they were; after
\* addHandler followed by removeHandler of the same handler the list has the
\* length and the members it had before, and is the list it was before if h
\* was not registered for the kind already (OpenFeatureCommonAPI).
C23_AddThenRemove ==
    [][ facade = "common" =>
          /\ ListCall("addHandler") =>
                 /\ getHandlers(handlers', last'.clientName, last'.result)
                        = Append(getHandlers(handlers, last'.clientName,
                                             last'.result), last'.handler)
                 /\ OthersKept
          /\ ListCall("removeHandler") =>
                 /\ getHandlers(handlers', last'.clientName, last'.result)
                        = WithoutFirst(getHandlers(handlers, last'.clientName,
                                                   last'.result), last'.handler)
                 /\ OthersKept
          /\ RemovedAfterAdd =>
                 LET after == getHandlers(handlers', last'.clientName,
                                          last'.result)
                 IN /\ Len(after) = Len(last.prior)
                    /\ \A fn \in HandlerFns :
                           Count(after, fn) = Count(last.prior, fn)
                    /\ Count(last.prior, last.handler) = 0 =>
                           after = last.prior
      ]_vars

\* Through the handle of 'a', a handler registered before another one was
\* added a second time and then removed: the registration taken out is the
\* earlier one, and the other handler is now first.
C23_Witness ==
    /\ facade = "common"
    /\ last.op = "removeHandler"
    /\ last.clientName = "a"
    /\ last.handler = 1
    /\ last.prior = <<1, 2, 1>>
    /\ getHandlers(handlers, "a", last.result) = <<2, 1>>

----------------------------------------------------------------------------
\* C24: a setTransactionContextPropagator call whose argument lacks
\* getTransactionContext or setTransactionContext logs an error, raises
\* nothing and leaves the assigned propagator as it was; an argument that has
\* both functions becomes the assigned propagator and nothing is logged.
C24_InvalidPropagatorRejected ==
    [][ last'.op = "setTransactionContextPropagator" =>
          /\ ~last'.threw
          /\ IF /\ HasGetTransactionContext(last'.arg)
                /\ HasSetTransactionContext(last'.arg)
             THEN propagator' = last'.arg /\ last'.logged = <<>>
             ELSE propagator' = propagator /\ Len(last'.logged) = 1
      ]_vars

\* After a propagator of the application had been assigned, an object with
\* getTransactionContext but without setTransactionContext was passed: the
\* error was logged and the assigned propagator stayed.
C24_Witness ==
    /\ last.op = "setTransactionContextPropagator"
    /\ last.arg = "noSet"
    /\ last.logged # <<>>
    /\ ~last.threw
    /\ propagator = "T1"

----------------------------------------------------------------------------
\* C25: getTransactionContext returns the context the assigned propagator
\* returns, and when getTransactionContext of the propagator throws it
\* returns the empty context, logs the error and raises nothing; the
\* assigned propagator is the same after the call in both cases.
C25_ContextRetrievalRecovered ==
    [][ last'.op = "getTransactionContext" =>
          /\ ~last'.threw
          /\ propagator' = propagator
          /\ IF last'.arg = "throw"
             THEN /\ last'.result = EmptyTransactionContext
                  /\ last'.logged # <<>>
             ELSE /\ last'.result = last'.arg
                  /\ last'.logged = <<>>
      ]_vars

\* getTransactionContext of an assigned propagator of the application threw:
\* the call returned the empty context and the propagator is still assigned.
C25_Witness ==
    /\ last.op = "getTransactionContext"
    /\ last.arg = "throw"
    /\ last.result = EmptyTransactionContext
    /\ ~last.threw
    /\ propagator = "T2"

----------------------------------------------------------------------------
\* C26: when onClose of providers fails during close(), the providers named
\* in the logged shutdown errors are the providers whose onClose failed, the
\* default provider and the named ones alike (OpenFeatureCommonAPI).
C26_ShutdownErrorNamesProvider ==
    (facade = "common" /\ CloseDone /\ last.failed # {}) =>
        Range(last.logged) = last.failed

----------------------------------------------------------------------------
\* The initialize promise that settled in the last step belongs to a binding
\* that has been superseded: the slot resolves to another provider now.
Superseded ==
    Settled /\ getProviderForClient(last.clientName) # last.provider

\* C27: when the initialize promise of a provider settles after its slot has
\* been rebound to another provider, neither Ready nor Error is emitted, into
\* the emitter of the slot or into the API emitter.
C27_StaleInitializeIsSilent ==
    Superseded => last.emits = <<>>

----------------------------------------------------------------------------
\* The slots provider p is the active provider of by a binding of their own.
HeldBy(p) == {n \in BoundSlots : getProviderForClient(n) = p}

\* C28: a provider with an event source that is the active provider of a
\* slot has the propagation handler of that slot on its event source,
\* whatever setProvider calls were made for other slots, and every event it
\* emits is emitted into the emitter of the slot and into the API emitter.
C28_ForwardingKept ==
    /\ \A p \in Providers :
           HasEvents(p) =>
               \A n \in HeldBy(p) : Forwarding(listeners, p, n)
    /\ last.op = "providerEmit" =>
           \A n \in HeldBy(last.provider) :
               /\ EmittedKind(ScopeOf(n), last.result)
               /\ EmittedKind(API, last.result)

----------------------------------------------------------------------------
\* The lifecycle events the last step emitted into scope.
LifecycleInto(scope) ==
    SelectSeq(last.emits, LAMBDA e : e.scope = scope /\ e.kind \in Lifecycle)

\* The last step emitted, into every scope it emitted into, one event of
\* this kind and no other lifecycle event.
OnePerScope(kind) ==
    \A scope \in Scopes :
        /\ Len(LifecycleInto(scope)) <= 1
        /\ \A i \in 1..Len(LifecycleInto(scope)) :
               LifecycleInto(scope)[i].kind = kind

\* C29: for a bind the coordinator emits at most one lifecycle event per
\* scope: a setProvider call emits Ready, once per scope, only for a provider
\* without initialize and then leaves no continuation behind; for a provider
\* with initialize it emits nothing and leaves one continuation, which runs
\* once and emits Ready if the promise resolved and Error if it rejected,
\* once per scope, also when handlers of the event fail
\* (OpenFeatureCommonAPI).
C29_OneLifecycleEventPerBind ==
    /\ []( (facade = "common" /\ Installing) =>
             IF HasInitialize(last.provider)
             THEN last.emits = <<>>
             ELSE OnePerScope(Ready) )
    /\ []( (facade = "common" /\ Settled) =>
             OnePerScope(IF last.result = "resolve" THEN Ready ELSE Error) )
    /\ [][ facade = "common" =>
             /\ (last'.op = "setProvider" /\ calls' = calls + 1) =>
                    pendingInit' =
                        IF /\ ~last'.noop
                           /\ ~last'.initThrew
                           /\ HasInitialize(last'.provider)
                        THEN Append(pendingInit,
                                    [provider |-> last'.provider,
                                     clientName |-> last'.clientName])
                        ELSE pendingInit
             /\ (last'.op = "initSettle" /\ pendingInit' # pendingInit) =>
                    \E i \in 1..Len(pendingInit) :
                        /\ pendingInit' = RemoveAt(pendingInit, i)
                        /\ pendingInit[i].provider = last'.provider
                        /\ pendingInit[i].clientName = last'.clientName
             /\ last'.op \notin {"setProvider", "initSettle", "providerEmit"} =>
                    last'.emits = <<>> /\ pendingInit' = pendingInit
         ]_vars

\* The initialize promise of the provider bound to client 'a' resolved, the
\* first Ready handlers on the emitter of 'a' failed, and the step emitted
\* Ready once into the emitter of 'a' and once into the API emitter.
C29_Witness ==
    /\ facade = "common"
    /\ Settled
    /\ last.result = "resolve"
    /\ last.clientName = "a"
    /\ HandlerFailed
    /\ Len(LifecycleInto("a")) = 1
    /\ Len(LifecycleInto(API)) = 1
    /\ Len(last.emits) = 2

----------------------------------------------------------------------------
\* The client names that have no binding of their own and resolve to the
\* default provider.
FallingBack == {n \in Names : clientProviders[n] = None}

\* A handler registered for kind through the handle of client n ran in the
\* last step.
RanFor(n, kind) ==
    \E i \in 1..Len(last.ran) :
        last.ran[i].via = n /\ last.ran[i].kind = kind

\* C30: when the default provider signals an event (the Ready or Error of
\* its initialization, or an event it emits while it has its propagation
\* handler), the handlers registered for the kind through the handle of
\* every client resolving to it run: the unnamed client, and each named
\* client that has no binding of its own.
C30_FallbackClientsHear ==
    /\ ( /\ Binding
         /\ last.clientName = Undefined
         /\ defaultProvider = last.provider
         /\ last.emits # <<>> )
       => \A n \in FallingBack \cup {Undefined} :
              RanFor(n, last.emits[1].kind)
    /\ ( /\ last.op = "providerEmit"
         /\ defaultProvider = last.provider
         /\ last.emits # <<>> )
       => \A n \in FallingBack \cup {Undefined} : RanFor(n, last.result)

====
